---- MODULE Spec2Model ----
(***************************************************************************)
(* The rank-partitioned views of TopoNetX (toponetx/classes/reportviews.py)*)
(* as state machines: SimplexView, HyperEdgeView, CellView and NodeView,   *)
(* together with the complexes' mutations that populate them and the       *)
(* graph-to-clique-complex and graph-to-neighbor-complex constructions.    *)
(*                                                                         *)
(* The views are translated from reportviews.py.  The mutations (simplex   *)
(* insert/remove, hyperedge insert, cell insert) and the graph algorithms  *)
(* live in modules of the repository that are not part of the source tree  *)
(* at hand; they are written from the specification's sections 4.2-4.5 and *)
(* from the test file, and are marked as such where they are defined.      *)
(***************************************************************************)
EXTENDS Integers, Sequences, FiniteSets, TLC

\* ------------------------------------------------------------------ bounds
NumAtoms == 3
MaxOps == 2
MaxRank == 1
MaxBoundary == 2
NumNodes == 4

Atoms == 1..NumAtoms
\* a property payload.  The views hand payloads back and never look into
\* them, so two values stand for all of them: 0, the default (empty) payload,
\* and 1, any other
Payloads == {0, 1}
\* the ElementSets: non-empty sets of atoms
ElementSets == (SUBSET Atoms) \ {{}}
Ranks == 0..MaxRank

VARIABLES
    faces_dict,      \* SimplexView.faces_dict: list of dicts, bucket r+1 holds rank r
    max_dim,         \* SimplexView.max_dim
    hyperedge_dict,  \* HyperEdgeView.hyperedge_dict: rank -> (frozenset -> payload)
    cells,           \* CellView._cells: tuple -> list of payloads, one per identity
    G,               \* the graph handed to the clique complex: a set of edges
    cap,             \* its max_dim argument; -1 stands for None
    pending,         \* the cliques, or the nodes, not yet handed to the complex
    pc,              \* position of the construction: "idle", "build", "done"
    lastOp,          \* the last mutation: its name and arguments
    prevOp,          \* the mutation before it
    result,          \* what the last mutation returned or raised
    query,           \* the last read operation since then, and what it returned
    steps            \* number of mutations so far

vars == <<faces_dict, max_dim, hyperedge_dict, cells, G, cap, pending, pc,
          lastOp, prevOp, result, query, steps>>

\* ------------------------------------------------------------- Python values
\* A key as a caller passes it.  form says what Python object it is:
\*   "atom"   a bare atom           (Hashable, not Iterable)
\*   "tuple"  a tuple of atoms      (Iterable, Hashable)
\*   "list"   a list of atoms       (Iterable, not Hashable)
\*   "set"    a set of atoms        (Iterable, not Hashable)
\*   "handle" a typed entity (Simplex, HyperEdge, Cell) with .elements
\* atoms is the sequence of atoms the object iterates over.
Forms == {"atom", "tuple", "list", "set", "handle"}

Range(s) == {s[i] : i \in DOMAIN s}

NoRepeat(s) == Cardinality(Range(s)) = Len(s)

\* the sequences of at most n distinct atoms
RECURSIVE SeqsUpTo(_)
SeqsUpTo(n) ==
    IF n = 0 THEN {<<>>}
    ELSE LET shorter == SeqsUpTo(n - 1)
         IN  shorter \cup {Append(s, a) : s \in {t \in shorter : Len(t) = n - 1},
                                          a \in Atoms}

\* the atom sequences keys are made of: every sequence of distinct atoms, and
\* an atom given twice
KeySeqs ==
    {s \in SeqsUpTo(NumAtoms) : NoRepeat(s)} \cup {<<a, a>> : a \in Atoms}

Keys ==
    {[form |-> "atom", atoms |-> s] : s \in {t \in KeySeqs : Len(t) = 1}}
    \cup {[form |-> f, atoms |-> s] : f \in {"tuple", "list"}, s \in KeySeqs}
    \cup {[form |-> "set", atoms |-> s] : s \in {t \in KeySeqs : NoRepeat(t)}}
    \cup {[form |-> "handle", atoms |-> s] : s \in {t \in KeySeqs : NoRepeat(t) /\ Len(t) > 0}}

\* isinstance(x, Iterable) and isinstance(x, Hashable).  A typed entity
\* iterates over its elements and is hashable (specification, section 4.1).
IsIterable(k) == k.form \in {"tuple", "list", "set", "handle"}
IsHashable(k) == k.form \in {"atom", "tuple", "handle"}
IsHandle(k) == k.form = "handle"

\* frozenset(x) for an iterable x, x.elements for a typed entity
FrozenSet(k) == Range(k.atoms)
\* len(x)
PyLen(k) == Len(k.atoms)
\* the atom of a bare atom
AtomOf(k) == k.atoms[1]

\* What an operation returns or raises.  kind is "value" (val: a payload, a
\* rank), "list" (items: payloads in order), "elements" (elems: ElementSets),
\* "True", "False", "None", or the name of the exception raised.
Ret(kind, val, items, elems) ==
    [kind |-> kind, val |-> val, items |-> items, elems |-> elems]
Raise(e) == Ret(e, 0, <<>>, {})
Value(v) == Ret("value", v, <<>>, {})
List(l) == Ret("list", 0, l, {})
Bool(b) == Ret(IF b THEN "True" ELSE "False", 0, <<>>, {})
None == Ret("None", 0, <<>>, {})

\* A mutation as lastOp records it: its name, the ElementSet (key) or the
\* ordered boundary (seq) it was given, the rank and the payload.
Op(name, key, seq, rank, payload) ==
    [op |-> name, key |-> key, seq |-> seq, rank |-> rank, payload |-> payload]
NoOp == Op("none", {}, <<>>, 0, 0)

\* A read as query records it: its name, the key, the rank and mode asked for,
\* and what it returned.
Query(name, k, rank, mode, ret) ==
    [op |-> name, key |-> k, rank |-> rank, mode |-> mode, ret |-> ret]
NoQuery == Query("none", [form |-> "list", atoms |-> <<>>], 0, "equal", None)

\* an empty dict
EmptyDict == <<>>
\* d with d[k] = v set
DictSet(d, k, v) == [x \in (DOMAIN d) \cup {k} |-> IF x = k THEN v ELSE d[x]]
\* d with k deleted
DictDel(d, k) ==
    IF (DOMAIN d) \ {k} = {} THEN EmptyDict ELSE [x \in (DOMAIN d) \ {k} |-> d[x]]

Max(a, b) == IF a >= b THEN a ELSE b

\* the sorted tuple of a set of integers
RECURSIVE SortedTuple(_)
SortedTuple(S) ==
    IF S = {} THEN <<>>
    ELSE LET m == CHOOSE x \in S : \A y \in S : x <= y
         IN  <<m>> \o SortedTuple(S \ {m})

\* the set T of atoms as a Python set (a frozenset)
SetKey(T) == [form |-> "set", atoms |-> SortedTuple(T)]

\* list[i] for a Python index i (0-based, negative counts from the end): the
\* 1-based position in the sequence, 0 when Python raises IndexError
PyIndex(list, i) ==
    IF i >= 0 THEN (IF i < Len(list) THEN i + 1 ELSE 0)
    ELSE (IF -i <= Len(list) THEN Len(list) + i + 1 ELSE 0)

\* ------------------------------------------------------------- SimplexView
\* The container is the pair (fd, md) = (faces_dict, max_dim).

\* SimplexView.__contains__: mutant with the size bound off by one
SimplexView_contains_bound(fd, md, k) ==
    IF IsIterable(k) THEN
        LET item == FrozenSet(k)
            n == Cardinality(item)
        IN  IF ~(0 < n /\ n <= md) THEN Bool(FALSE)
            ELSE IF PyIndex(fd, n - 1) = 0 THEN Raise("IndexError")
            ELSE Bool(item \in DOMAIN fd[PyIndex(fd, n - 1)])
    ELSE IF IsHashable(k) THEN
        IF PyIndex(fd, 0) = 0 THEN Raise("IndexError")
        ELSE Bool({AtomOf(k)} \in DOMAIN fd[PyIndex(fd, 0)])
    ELSE Bool(FALSE)

\* SimplexView.__contains__: mutant that looks in the bucket of index len(item)
SimplexView_contains_index(fd, md, k) ==
    IF IsIterable(k) THEN
        LET item == FrozenSet(k)
            n == Cardinality(item)
        IN  IF ~(0 < n /\ n <= md + 1) THEN Bool(FALSE)
            ELSE IF PyIndex(fd, n) = 0 THEN Raise("IndexError")
            ELSE Bool(item \in DOMAIN fd[PyIndex(fd, n)])
    ELSE IF IsHashable(k) THEN
        IF PyIndex(fd, 0) = 0 THEN Raise("IndexError")
        ELSE Bool({AtomOf(k)} \in DOMAIN fd[PyIndex(fd, 0)])
    ELSE Bool(FALSE)

\* SimplexView.__contains__(item)
SimplexView_contains(fd, md, k) ==
    IF IsIterable(k) THEN
        LET item == FrozenSet(k)
            n == Cardinality(item)
        IN  IF ~(0 < n /\ n <= md + 1) THEN Bool(FALSE)
            ELSE IF PyIndex(fd, n - 1) = 0 THEN Raise("IndexError")
            ELSE Bool(item \in DOMAIN fd[PyIndex(fd, n - 1)])
    ELSE IF IsHashable(k) THEN
        IF PyIndex(fd, 0) = 0 THEN Raise("IndexError")
        ELSE Bool({AtomOf(k)} \in DOMAIN fd[PyIndex(fd, 0)])
    ELSE Bool(FALSE)

\* SimplexView.__getitem__: mutant that reads the bucket of index len(simplex)
SimplexView_getitem_index(fd, md, k) ==
    IF IsHandle(k) THEN
        LET i == PyIndex(fd, PyLen(k) - 1)
        IN  IF i = 0 THEN Raise("IndexError")
            ELSE IF FrozenSet(k) \in DOMAIN fd[i] THEN Value(fd[i][FrozenSet(k)])
            ELSE None
    ELSE IF IsIterable(k) THEN
        LET simplex == FrozenSet(k)
            i == PyIndex(fd, Cardinality(simplex))
        IN  IF i = 0 THEN Raise("IndexError")
            ELSE IF simplex \in DOMAIN fd[i] THEN Value(fd[i][simplex])
            ELSE Raise("KeyError")
    ELSE IF IsHashable(k) THEN
        LET c == SimplexView_contains(fd, md, [form |-> "set", atoms |-> k.atoms])
        IN  IF c.kind = "True" THEN Value(fd[1][{AtomOf(k)}])
            ELSE IF c.kind = "False" THEN None
            ELSE c
    ELSE None

\* SimplexView.__getitem__(simplex)
SimplexView_getitem(fd, md, k) ==
    IF IsHandle(k) THEN
        LET i == PyIndex(fd, PyLen(k) - 1)
        IN  IF i = 0 THEN Raise("IndexError")
            ELSE IF FrozenSet(k) \in DOMAIN fd[i] THEN Value(fd[i][FrozenSet(k)])
            ELSE None
    ELSE IF IsIterable(k) THEN
        LET simplex == FrozenSet(k)
            i == PyIndex(fd, Cardinality(simplex) - 1)
        IN  IF i = 0 THEN Raise("IndexError")
            ELSE IF simplex \in DOMAIN fd[i] THEN Value(fd[i][simplex])
            ELSE Raise("KeyError")
    ELSE IF IsHashable(k) THEN
        \* frozenset({simplex}) in self
        LET c == SimplexView_contains(fd, md, [form |-> "set", atoms |-> k.atoms])
        IN  IF c.kind = "True" THEN Value(fd[1][{AtomOf(k)}])
            ELSE IF c.kind = "False" THEN None
            ELSE c
    ELSE None

\* SimplexView.shape: the number of simplices in each dimension
SimplexView_shape(fd) == [i \in 1..Len(fd) |-> Cardinality(DOMAIN fd[i])]

RECURSIVE SumSeq(_)
SumSeq(s) == IF s = <<>> THEN 0 ELSE Head(s) + SumSeq(Tail(s))

\* SimplexView.__len__
SimplexView_len(fd) == SumSeq(SimplexView_shape(fd))

\* SimplexView.__iter__: the simplices stored, as a set
SimplexView_iter(fd) == UNION {DOMAIN fd[i] : i \in 1..Len(fd)}

\* SimplexView.__init__
SimplexView_init == faces_dict = <<>> /\ max_dim = -1

\* ---------------------------------------------------------------- CellView
\* The container is cs = _cells: "keys being the tuple that defines the cell,
\* and values being dictionaries of cell objects".  The inner dict is the list
\* of its cells' payloads in insertion order.

\* the key a cell is looked up with: cell.elements of a Cell, tuple(cell) of a
\* tuple or list
CellKey(k) == k.atoms

\* CellView.__getitem__(cell)
CellView_getitem(cs, k) ==
    IF IsHandle(k) \/ k.form \in {"tuple", "list"} THEN
        IF CellKey(k) \notin DOMAIN cs THEN Raise("KeyError")
        ELSE IF Len(cs[CellKey(k)]) = 1 THEN Value(cs[CellKey(k)][1])
        ELSE List(cs[CellKey(k)])
    ELSE Raise("TypeError")

\* CellView.raw(cell): the cells themselves, each named by its position under
\* the key
CellView_raw(cs, k) ==
    IF IsHandle(k) \/ k.form \in {"tuple", "list"} THEN
        IF CellKey(k) \notin DOMAIN cs THEN Raise("KeyError")
        ELSE IF Len(cs[CellKey(k)]) = 1 THEN Value(1)
        ELSE List([i \in 1..Len(cs[CellKey(k)]) |-> i])
    ELSE Raise("TypeError")

\* CellView.__len__: mutant that counts the keys
CellView_len_keys(cs) == Cardinality(DOMAIN cs)

\* CellView.__len__
CellView_len(cs) ==
    LET keys == DOMAIN cs
        count[K \in SUBSET keys] ==
            IF K = {} THEN 0
            ELSE LET c == CHOOSE x \in K : TRUE
                 IN  Len(cs[c]) + count[K \ {c}]
    IN  count[keys]

\* CellView.__contains__(e)
CellView_contains(cs, k) ==
    IF ~IsIterable(k) THEN Bool(FALSE)
    ELSE Bool(k.atoms \in DOMAIN cs)

\* CellView.__init__
CellView_init == cells = EmptyDict

\* ----------------------------------------------------------- HyperEdgeView
\* The container is hd = hyperedge_dict: rank -> dict.

\* HyperEdgeView._to_frozen_set(hyperedge): every branch yields the set of the
\* key's atoms, a bare atom the singleton
HyperEdgeView_to_frozen_set(k) == SetKey(FrozenSet(k))

\* HyperEdgeView.allranks: the ranks in ascending order
HyperEdgeView_allranks(hd) == SortedTuple(DOMAIN hd)

\* the first rank of the list ranks whose bucket holds E, -1 when none does
RECURSIVE FirstRankWith(_, _, _)
FirstRankWith(hd, ranks, E) ==
    IF ranks = <<>> THEN -1
    ELSE IF E \in DOMAIN hd[Head(ranks)] THEN Head(ranks)
    ELSE FirstRankWith(hd, Tail(ranks), E)

\* HyperEdgeView.get_rank: mutant whose scan starts after the first rank
HyperEdgeView_get_rank_skip(hd, k) ==
    IF IsIterable(k) THEN
        IF PyLen(k) = 0 THEN Value(0)
        ELSE LET ranks == HyperEdgeView_allranks(hd)
                 i == FirstRankWith(hd, IF ranks = <<>> THEN ranks ELSE Tail(ranks),
                                    FrozenSet(k))
             IN  IF i >= 0 THEN Value(i) ELSE Raise("KeyError")
    ELSE IF IsHashable(k) THEN Raise("KeyError")
    ELSE None

\* HyperEdgeView.get_rank(e).  For a bare atom the method looks the atom
\* itself up in hyperedge_dict[0], whose keys are frozensets: the atom is no
\* key of it, and a missing rank 0 raises KeyError as well.
HyperEdgeView_get_rank(hd, k) ==
    IF IsIterable(k) THEN
        IF PyLen(k) = 0 THEN Value(0)
        ELSE LET i == FirstRankWith(hd, HyperEdgeView_allranks(hd), FrozenSet(k))
             IN  IF i >= 0 THEN Value(i) ELSE Raise("KeyError")
    ELSE IF IsHashable(k) THEN Raise("KeyError")
    ELSE None

\* HyperEdgeView.__getitem__(hyperedge)
HyperEdgeView_getitem(hd, k) ==
    LET hyperedge_ == HyperEdgeView_to_frozen_set(k)
        rank == HyperEdgeView_get_rank(hd, hyperedge_)
    IN  IF rank.kind # "value" THEN rank
        ELSE IF rank.val \notin DOMAIN hd THEN Raise("KeyError")
        ELSE IF FrozenSet(hyperedge_) \notin DOMAIN hd[rank.val] THEN Raise("KeyError")
        ELSE Value(hd[rank.val][FrozenSet(hyperedge_)])

\* HyperEdgeView.shape
HyperEdgeView_shape(hd) ==
    LET ranks == HyperEdgeView_allranks(hd)
    IN  [i \in 1..Len(ranks) |-> Cardinality(DOMAIN hd[ranks[i]])]

\* HyperEdgeView.__len__
HyperEdgeView_len(hd) == SumSeq(HyperEdgeView_shape(hd))

\* HyperEdgeView.__iter__: the hyperedges stored, as a set
HyperEdgeView_iter(hd) == UNION {DOMAIN hd[r] : r \in DOMAIN hd}

\* HyperEdgeView.__contains__(e)
HyperEdgeView_contains(hd, k) ==
    IF DOMAIN hd = {} THEN Bool(FALSE)
    ELSE IF IsIterable(k) THEN
        IF PyLen(k) = 0 THEN Bool(FALSE)
        ELSE Bool(\E r \in DOMAIN hd : FrozenSet(k) \in DOMAIN hd[r])
    ELSE IF IsHashable(k) THEN
        IF 0 \notin DOMAIN hd THEN Raise("KeyError")
        ELSE Bool({AtomOf(k)} \in DOMAIN hd[0])
    ELSE Bool(FALSE)

Levels == {"equal", "upper", "lower", "other"}

\* HyperEdgeView.skeleton(rank, level): the members of the list returned.
\* In the two loops the loop variable is named rank as well, so that the test
\* `rank >= rank` (`rank <= rank`) compares each rank of the container with
\* itself.  The list is sorted() on frozensets, whose < is the proper subset:
\* its order depends on the insertion order and is not modelled.
HyperEdgeView_skeleton(hd, rank, level) ==
    IF level = "equal" THEN
        IF rank \in DOMAIN hd
        THEN Ret("elements", 0, <<>>, DOMAIN hd[rank])
        ELSE Ret("elements", 0, <<>>, {})
    ELSE IF level = "upper" THEN
        Ret("elements", 0, <<>>,
            UNION {DOMAIN hd[r] : r \in {q \in DOMAIN hd : q >= q}})
    ELSE IF level = "lower" THEN
        Ret("elements", 0, <<>>,
            UNION {DOMAIN hd[r] : r \in {q \in DOMAIN hd : q <= q}})
    ELSE Raise("TopoNetXError")

\* HyperEdgeView.__init__
HyperEdgeView_init == hyperedge_dict = EmptyDict

\* ---------------------------------------------------------------- NodeView
\* NodeView.__init__(objectdict, cell_type) over a list of dicts, as the
\* simplicial complex builds it: nodes is the rank-0 bucket, {} when the list
\* is empty
NodeView_init(objectdict) ==
    IF Len(objectdict) # 0 THEN objectdict[1] ELSE EmptyDict

\* NodeView.__getitem__(cell)
NodeView_getitem(nodes, k) ==
    IF IsHandle(k) THEN
        IF FrozenSet(k) \in DOMAIN nodes THEN Value(nodes[FrozenSet(k)])
        ELSE None
    ELSE IF IsIterable(k) THEN
        IF FrozenSet(k) \in DOMAIN nodes THEN Value(nodes[FrozenSet(k)])
        ELSE Raise("KeyError")
    ELSE IF IsHashable(k) THEN
        \* cell in self
        IF {AtomOf(k)} \in DOMAIN nodes THEN Value(nodes[{AtomOf(k)}])
        ELSE None
    ELSE None

\* NodeView.__len__
NodeView_len(nodes) == Cardinality(DOMAIN nodes)

\* NodeView.__contains__(e), as `e in view` evaluates it.  A hashable key
\* that is no typed entity is wrapped whole, frozenset({e}): for a bare atom
\* that is the node's key, for a tuple it is a set holding the tuple, which is
\* no key of nodes.  A list or set of another length than 1 falls off the end
\* of the method, and `in` turns the None into False.
NodeView_contains(nodes, k) ==
    IF IsHashable(k) /\ ~IsHandle(k) THEN
        IF k.form = "atom" THEN Bool({AtomOf(k)} \in DOMAIN nodes)
        ELSE Bool(FALSE)
    ELSE IF IsHandle(k) THEN Bool(FrozenSet(k) \in DOMAIN nodes)
    ELSE IF IsIterable(k) THEN
        IF PyLen(k) = 1 THEN Bool(FrozenSet(k) \in DOMAIN nodes)
        ELSE Bool(FALSE)
    ELSE Bool(FALSE)

\* ------------------------------------------- SimplexContainer (section 4.2)
\* The mutations of the simplicial complex, written from the specification.

\* faces_dict grown to n buckets
Extend(fd, n) ==
    [i \in 1..Max(Len(fd), n) |-> IF i <= Len(fd) THEN fd[i] ELSE EmptyDict]

\* faces_dict without its empty top buckets
RECURSIVE Trim(_)
Trim(fd) ==
    IF fd # <<>> /\ DOMAIN fd[Len(fd)] = {}
    THEN Trim(SubSeq(fd, 1, Len(fd) - 1))
    ELSE fd

\* insert(elementset): every non-empty subset T gets a record in bucket
\* |T|-1; records that exist are left as they are; the payload goes to the
\* set itself, the new faces get the default payload
SimplexContainer_insert(fd, S, p) ==
    LET ext == Extend(fd, Cardinality(S))
    IN  [i \in DOMAIN ext |->
            LET subsets == {T \in SUBSET S : Cardinality(T) = i}
            IN  [T \in (DOMAIN ext[i]) \cup subsets |->
                    IF T \in DOMAIN ext[i] THEN ext[i][T]
                    ELSE IF T = S THEN p
                    ELSE 0]]

\* remove(key): the exact ElementSet is deleted, nothing else; the buckets
\* left empty at the top are dropped, so that the dimension stays the
\* maximal occupied rank
SimplexContainer_remove(fd, S) ==
    Trim([fd EXCEPT ![Cardinality(S)] = DictDel(@, S)])

\* whether S is stored in its bucket
Stored(fd, S) ==
    /\ Cardinality(S) \in 1..Len(fd)
    /\ S \in DOMAIN fd[Cardinality(S)]

\* dimension(): the reported dimension
SimplexContainer_dimension(md) == md

\* lexicographic order on tuples of atoms
RECURSIVE LexLeq(_, _)
LexLeq(a, b) ==
    IF a = <<>> THEN TRUE
    ELSE IF b = <<>> THEN FALSE
    ELSE IF Head(a) # Head(b) THEN Head(a) < Head(b)
    ELSE LexLeq(Tail(a), Tail(b))

\* a set of ElementSets as the list sorted lexicographically on the sorted
\* atoms
RECURSIVE SortedList(_)
SortedList(SS) ==
    IF SS = {} THEN <<>>
    ELSE LET m == CHOOSE x \in SS : \A y \in SS : LexLeq(SortedTuple(x), SortedTuple(y))
         IN  <<m>> \o SortedList(SS \ {m})

Modes == {"equal", "upper", "lower"}

\* skeleton(rank, mode) of the simplex container
SimplexContainer_skeleton(fd, rank, mode) ==
    LET at(r) == IF r + 1 <= Len(fd) THEN DOMAIN fd[r + 1] ELSE {}
        occupied == 0..(Len(fd) - 1)
    IN  SortedList(
            CASE mode = "equal" -> at(rank)
              [] mode = "upper" -> UNION {at(r) : r \in {q \in occupied : q >= rank}}
              [] mode = "lower" -> UNION {at(r) : r \in {q \in occupied : q <= rank}})

\* --------------------------------------------------------------- the state
Init ==
    /\ SimplexView_init
    /\ HyperEdgeView_init
    /\ CellView_init
    /\ G = {}
    /\ cap = -1
    /\ pending = {}
    /\ pc = "idle"
    /\ lastOp = NoOp
    /\ prevOp = NoOp
    /\ result = None
    /\ query = NoQuery
    /\ steps = 0

others_simplex == <<hyperedge_dict, cells, G, cap, pending, pc>>

\* sc.add_simplex(S, **payload)
Insert(S, p) ==
    /\ pc = "idle"
    /\ steps < MaxOps
    /\ faces_dict' = SimplexContainer_insert(faces_dict, S, p)
    /\ max_dim' = Max(max_dim, Cardinality(S) - 1)
    /\ lastOp' = Op("insert", S, <<>>, Cardinality(S) - 1, p)
    /\ prevOp' = lastOp
    /\ result' = None
    /\ query' = NoQuery
    /\ steps' = steps + 1
    /\ UNCHANGED others_simplex

\* sc.remove(S)
Remove(S) ==
    /\ pc = "idle"
    /\ steps < MaxOps
    /\ IF Stored(faces_dict, S)
       THEN /\ faces_dict' = SimplexContainer_remove(faces_dict, S)
            /\ max_dim' = Len(faces_dict') - 1
            /\ result' = None
       ELSE /\ UNCHANGED <<faces_dict, max_dim>>
            /\ result' = Raise("NotFoundError")
    /\ lastOp' = Op("remove", S, <<>>, Cardinality(S) - 1, 0)
    /\ prevOp' = lastOp
    /\ query' = NoQuery
    /\ steps' = steps + 1
    /\ UNCHANGED others_simplex

NextSimplex ==
    \/ \E S \in ElementSets, p \in Payloads : Insert(S, p)
    \/ \E S \in ElementSets : Remove(S)

\* the simplicial complex under insert and remove
SpecSimplex == Init /\ [][NextSimplex]_vars

\* ----------------------------------------------------- reads of the simplices
\* A read leaves the container as it is, so a second read in a row returns
\* what it would have returned as the first: the reads are explored one at a
\* time after each mutation.
CanRead == pc = "idle" /\ query = NoQuery

reads_unchanged ==
    <<faces_dict, max_dim, hyperedge_dict, cells, G, cap, pending, pc,
      lastOp, prevOp, result, steps>>

\* key in sc.simplices
SimplexContains(k) ==
    /\ CanRead
    /\ query' = Query("simplex_contains", k, 0, "equal",
                      SimplexView_contains(faces_dict, max_dim, k))
    /\ UNCHANGED reads_unchanged

\* sc.simplices[key]
SimplexLookup(k) ==
    /\ CanRead
    /\ query' = Query("simplex_getitem", k, 0, "equal",
                      SimplexView_getitem(faces_dict, max_dim, k))
    /\ UNCHANGED reads_unchanged

\* key in sc.nodes
SimplexNodeContains(k) ==
    /\ CanRead
    /\ query' = Query("node_contains", k, 0, "equal",
                      NodeView_contains(NodeView_init(faces_dict), k))
    /\ UNCHANGED reads_unchanged

\* sc.nodes[key]
SimplexNodeLookup(k) ==
    /\ CanRead
    /\ query' = Query("node_getitem", k, 0, "equal",
                      NodeView_getitem(NodeView_init(faces_dict), k))
    /\ UNCHANGED reads_unchanged

\* len(sc.simplices)
SimplexLen ==
    /\ CanRead
    /\ query' = Query("simplex_len", NoQuery.key, 0, "equal",
                      Value(SimplexView_len(faces_dict)))
    /\ UNCHANGED reads_unchanged

\* sc.skeleton(rank, mode)
SimplexSkeleton(r, m) ==
    /\ CanRead
    /\ query' = Query("simplex_skeleton", NoQuery.key, r, m,
                      Ret("elements", 0, <<>>,
                          Range(SimplexContainer_skeleton(faces_dict, r, m))))
    /\ UNCHANGED reads_unchanged

NextSimplexView ==
    \/ NextSimplex
    \/ \E k \in Keys : SimplexContains(k)
    \/ \E k \in Keys : SimplexLookup(k)
    \/ \E k \in Keys : SimplexNodeContains(k)
    \/ \E k \in Keys : SimplexNodeLookup(k)
    \/ SimplexLen
    \/ \E r \in Ranks, m \in Modes : SimplexSkeleton(r, m)

\* the simplicial complex under insert and remove, with the reads of its views
SpecSimplexView == Init /\ [][NextSimplexView]_vars

\* ----------------------------------------- HyperedgeContainer (section 4.3)
\* insert(elementset, rank, payload), written from the specification: the rank
\* the set is stored at is looked up with get_rank; another rank than the one
\* given is a RankConflictError and nothing is stored; a set stored at the
\* rank given is left as it is; a new set is stored with its payload, in a
\* bucket created when the rank had none.
HyperedgeContainer_insert(hd, E, r, p) ==
    LET found == HyperEdgeView_get_rank(hd, SetKey(E))
    IN  IF found.kind = "value" /\ found.val # r
        THEN [hd |-> hd, ret |-> Raise("RankConflictError")]
        ELSE IF found.kind = "value"
        THEN [hd |-> hd, ret |-> None]
        ELSE [hd |-> DictSet(hd, r, DictSet(IF r \in DOMAIN hd THEN hd[r] ELSE EmptyDict,
                                            E, p)),
              ret |-> None]

others_hyper == <<faces_dict, max_dim, cells, G, cap, pending, pc>>

\* cc.add_cell(E, rank=r, **payload)
AddHyperedge(E, r, p) ==
    /\ pc = "idle"
    /\ steps < MaxOps
    /\ LET out == HyperedgeContainer_insert(hyperedge_dict, E, r, p)
       IN  /\ hyperedge_dict' = out.hd
           /\ result' = out.ret
    /\ lastOp' = Op("add_hyperedge", E, <<>>, r, p)
    /\ prevOp' = lastOp
    /\ query' = NoQuery
    /\ steps' = steps + 1
    /\ UNCHANGED others_hyper

NextHyper == \E E \in ElementSets, r \in Ranks, p \in Payloads : AddHyperedge(E, r, p)

\* the combinatorial complex under insert
SpecHyper == Init /\ [][NextHyper]_vars

\* key in cc.cells
HyperContains(k) ==
    /\ CanRead
    /\ query' = Query("hyper_contains", k, 0, "equal",
                      HyperEdgeView_contains(hyperedge_dict, k))
    /\ UNCHANGED reads_unchanged

\* cc.cells[key]
HyperLookup(k) ==
    /\ CanRead
    /\ query' = Query("hyper_getitem", k, 0, "equal",
                      HyperEdgeView_getitem(hyperedge_dict, k))
    /\ UNCHANGED reads_unchanged

\* cc.cells.get_rank(key)
HyperGetRank(k) ==
    /\ CanRead
    /\ query' = Query("hyper_get_rank", k, 0, "equal",
                      HyperEdgeView_get_rank(hyperedge_dict, k))
    /\ UNCHANGED reads_unchanged

\* len(cc.cells)
HyperLen ==
    /\ CanRead
    /\ query' = Query("hyper_len", NoQuery.key, 0, "equal",
                      Value(HyperEdgeView_len(hyperedge_dict)))
    /\ UNCHANGED reads_unchanged

\* cc.cells.skeleton(rank, level)
HyperSkeleton(r, level) ==
    /\ CanRead
    /\ query' = Query("hyper_skeleton", NoQuery.key, r, level,
                      HyperEdgeView_skeleton(hyperedge_dict, r, level))
    /\ UNCHANGED reads_unchanged

NextHyperView ==
    \/ NextHyper
    \/ \E k \in Keys : HyperContains(k)
    \/ \E k \in Keys : HyperLookup(k)
    \/ \E k \in Keys : HyperGetRank(k)
    \/ HyperLen
    \/ \E r \in Ranks, level \in Levels : HyperSkeleton(r, level)

\* the combinatorial complex under insert, with the reads of its view
SpecHyperView == Init /\ [][NextHyperView]_vars

\* ---------------------------------------------- CellContainer (section 4.4)
\* the ordered boundaries cells are inserted with
Boundaries == {b \in KeySeqs : NoRepeat(b) /\ Len(b) \in 2..MaxBoundary}

\* insert(ordered_boundary, payload), written from the specification: the
\* cell gets a new identity, after those stored under its key, and no identity
\* is overwritten.  The key is the boundary tuple, as CellView documents and
\* looks it up.
CellContainer_insert(cs, b, p) ==
    DictSet(cs, b, Append(IF b \in DOMAIN cs THEN cs[b] ELSE <<>>, p))

others_cell == <<faces_dict, max_dim, hyperedge_dict, G, cap, pending, pc>>

\* cx.add_cell(b, **payload)
AddCell(b, p) ==
    /\ pc = "idle"
    /\ steps < MaxOps
    /\ cells' = CellContainer_insert(cells, b, p)
    /\ result' = None
    /\ lastOp' = Op("add_cell", Range(b), b, Len(b), p)
    /\ prevOp' = lastOp
    /\ query' = NoQuery
    /\ steps' = steps + 1
    /\ UNCHANGED others_cell

NextCell == \E b \in Boundaries, p \in Payloads : AddCell(b, p)

\* the cell complex under insert
SpecCell == Init /\ [][NextCell]_vars

\* key in cx.cells
CellContains(k) ==
    /\ CanRead
    /\ query' = Query("cell_contains", k, 0, "equal", CellView_contains(cells, k))
    /\ UNCHANGED reads_unchanged

\* cx.cells[key]
CellLookup(k) ==
    /\ CanRead
    /\ query' = Query("cell_getitem", k, 0, "equal", CellView_getitem(cells, k))
    /\ UNCHANGED reads_unchanged

\* cx.cells.raw(key)
CellRaw(k) ==
    /\ CanRead
    /\ query' = Query("cell_raw", k, 0, "equal", CellView_raw(cells, k))
    /\ UNCHANGED reads_unchanged

\* len(cx.cells)
CellLen ==
    /\ CanRead
    /\ query' = Query("cell_len", NoQuery.key, 0, "equal", Value(CellView_len(cells)))
    /\ UNCHANGED reads_unchanged

NextCellView ==
    \/ NextCell
    \/ \E k \in Keys : CellContains(k)
    \/ \E k \in Keys : CellLookup(k)
    \/ \E k \in Keys : CellRaw(k)
    \/ CellLen

\* the cell complex under insert, with the reads of its view
SpecCellView == Init /\ [][NextCellView]_vars

\* ------------------------------------------ GraphToComplex (section 4.5)
\* The graph collaborator: the nodes 0..NumNodes-1 and a set of edges {u, v}.
Nodes == 0..(NumNodes - 1)
Edges == {e \in SUBSET Nodes : Cardinality(e) = 2}

\* the max_dim argument: a dimension to cap at, or -1 for None
Caps == {-1} \cup 1..NumNodes

IsClique(g, C) == \A u \in C, v \in C : u # v => {u, v} \in g

\* the clique-enumeration primitive of the graph collaborator
MaximalCliques(g) ==
    {C \in (SUBSET Nodes) \ {{}} :
        /\ IsClique(g, C)
        /\ \A v \in Nodes \ C : ~IsClique(g, C \cup {v})}

\* the subsets of the clique C handed to the complex: C itself, or its subsets
\* of max_dim vertices when it has more (max_dim=2 keeps the edges of a
\* triangle, as the test of the clique complex has it)
CappedFaces(C, maxdim) ==
    IF maxdim = -1 \/ Cardinality(C) <= maxdim THEN {C}
    ELSE {T \in SUBSET C : Cardinality(T) = maxdim /\ T # {}}

\* faces_dict after the insert of every set of TS
RECURSIVE InsertAll(_, _)
InsertAll(fd, TS) ==
    IF TS = {} THEN fd
    ELSE LET T == CHOOSE x \in TS : TRUE
         IN  InsertAll(SimplexContainer_insert(fd, T, 0), TS \ {T})

\* clique_complex(graph, max_dim) is called on a graph
InitClique ==
    /\ SimplexView_init
    /\ HyperEdgeView_init
    /\ CellView_init
    /\ G \in SUBSET Edges
    /\ cap \in Caps
    /\ pending = MaximalCliques(G)
    /\ pc = "build"
    /\ lastOp = NoOp
    /\ prevOp = NoOp
    /\ result = None
    /\ query = NoQuery
    /\ steps = 0

\* one maximal clique is inserted with its subsets, capped at max_dim
InsertClique(C) ==
    /\ pc = "build"
    /\ C \in pending
    /\ faces_dict' = InsertAll(faces_dict, CappedFaces(C, cap))
    /\ max_dim' = Len(faces_dict') - 1
    /\ pending' = pending \ {C}
    /\ pc' = IF pending' = {} THEN "done" ELSE "build"
    /\ UNCHANGED <<hyperedge_dict, cells, G, cap, lastOp, prevOp, result, query, steps>>

NextClique == \E C \in (SUBSET Nodes) \ {{}} : InsertClique(C)

\* the construction of the clique complex of a graph
SpecClique == InitClique /\ [][NextClique]_vars

\* the two public names of the construction: graph_2_clique_complex is the
\* deprecated one, a forwarding alias that warns and calls the other
EntryPoints == {"graph_to_clique_complex", "graph_2_clique_complex"}

\* what the call of an entry point emits before it builds the complex
EntryWarning(entry) ==
    IF entry = "graph_2_clique_complex" THEN Ret("DeprecationWarning", 0, <<>>, {})
    ELSE None

\* the clique complex is asked for through one of its entry points
InitCliqueEntry ==
    /\ SimplexView_init
    /\ HyperEdgeView_init
    /\ CellView_init
    /\ G \in SUBSET Edges
    /\ cap \in Caps
    /\ pending = MaximalCliques(G)
    /\ pc = "build"
    /\ \E entry \in EntryPoints :
            /\ lastOp = Op(entry, {}, <<>>, 0, 0)
            /\ result = EntryWarning(entry)
    /\ prevOp = NoOp
    /\ query = NoQuery
    /\ steps = 0

\* the construction of the clique complex through either entry point
SpecCliqueEntry == InitCliqueEntry /\ [][NextClique]_vars

\* N[v], the closed neighbourhood of v in g: v and the nodes adjacent to it
ClosedNeighborhood(g, v) == {v} \cup {u \in Nodes : {u, v} \in g}

\* neighbor_complex(graph) is called on a graph; pending holds the nodes whose
\* neighbourhood is still to be inserted
InitNeighbor ==
    /\ SimplexView_init
    /\ HyperEdgeView_init
    /\ CellView_init
    /\ G \in SUBSET Edges
    /\ cap = -1
    /\ pending = Nodes
    /\ pc = "build"
    /\ lastOp = NoOp
    /\ prevOp = NoOp
    /\ result = None
    /\ query = NoQuery
    /\ steps = 0

\* the closed neighbourhood of the node v is inserted as a simplex
InsertNeighborhood(v) ==
    /\ pc = "build"
    /\ v \in pending
    /\ faces_dict' = SimplexContainer_insert(faces_dict, ClosedNeighborhood(G, v), 0)
    /\ max_dim' = Len(faces_dict') - 1
    /\ pending' = pending \ {v}
    /\ pc' = IF pending' = {} THEN "done" ELSE "build"
    /\ UNCHANGED <<hyperedge_dict, cells, G, cap, lastOp, prevOp, result, query, steps>>

NextNeighbor == \E v \in Nodes : InsertNeighborhood(v)

\* the construction of the neighbor complex of a graph
SpecNeighbor == InitNeighbor /\ [][NextNeighbor]_vars

\* ------------------------------------------------------------------ claims
\* the non-empty subsets of S
Faces(S) == (SUBSET S) \ {{}}

\* a step of the specification that is a mutation
Mutation == steps' = steps + 1

\* C1: after insert(S) succeeds, contains(T) is true for every non-empty
\* subset T of S, S included, whatever form the key T is given in, and T is
\* stored in the bucket of rank |T|-1.
C1_InsertPostcondition ==
    (lastOp.op = "insert" /\ result = None) =>
        \A k \in Keys :
            (FrozenSet(k) # {} /\ FrozenSet(k) \subseteq lastOp.key) =>
                /\ SimplexView_contains(faces_dict, max_dim, k).kind = "True"
                /\ Stored(faces_dict, FrozenSet(k))

\* an insert of a simplex of three atoms into a container that lacked its
\* edges has just succeeded
C1_Witness ==
    /\ lastOp.op = "insert"
    /\ result = None
    /\ Cardinality(lastOp.key) = 3
    /\ steps = 2
    /\ SimplexView_len(faces_dict) = 7

\* every stored simplex has all its non-empty subsets in the container
Closed(fd, md) ==
    \A S \in SimplexView_iter(fd) :
        \A T \in Faces(S) :
            SimplexView_contains(fd, md, SetKey(T)).kind = "True"

\* S is a proper face of no stored simplex
IsMaximal(fd, S) == ~ \E U \in SimplexView_iter(fd) : S \subseteq U /\ S # U

C3_InsertIdempotent ==
    [][(/\ Mutation
        /\ lastOp.op = "insert"
        /\ lastOp'.op = "insert"
        /\ lastOp'.key = lastOp.key)
       => /\ SimplexView_len(faces_dict') = SimplexView_len(faces_dict)
          /\ SimplexView_shape(faces_dict') = SimplexView_shape(faces_dict)
          /\ \A r \in 0..NumAtoms, m \in Modes :
                SimplexContainer_skeleton(faces_dict', r, m)
                    = SimplexContainer_skeleton(faces_dict, r, m)
          /\ \A S \in SimplexView_iter(faces_dict) :
                /\ Stored(faces_dict', S)
                /\ faces_dict'[Cardinality(S)][S] = faces_dict[Cardinality(S)][S]
                /\ SimplexView_getitem(faces_dict', max_dim', SetKey(S))
                        = Value(faces_dict[Cardinality(S)][S])]_vars

\* the same set of two or more atoms has been inserted twice in a row, the
\* second time with another payload than the one it is stored with
C3_Witness ==
    /\ lastOp.op = "insert"
    /\ prevOp.op = "insert"
    /\ prevOp.key = lastOp.key
    /\ Cardinality(lastOp.key) >= 2
    /\ faces_dict[Cardinality(lastOp.key)][lastOp.key] # lastOp.payload

\* the maximal rank whose bucket is not empty, -1 when there is none
MaxOccupied(fd) ==
    LET occ == {i \in 1..Len(fd) : DOMAIN fd[i] # {}}
    IN  IF occ = {} THEN -1
        ELSE (CHOOSE i \in occ : \A j \in occ : j <= i) - 1

DimensionOk(fd, md) ==
    /\ SimplexContainer_dimension(md) = MaxOccupied(fd)
    /\ (SimplexContainer_dimension(md) = -1) <=> (SimplexView_len(fd) = 0)
    /\ \A S \in SimplexView_iter(fd) :
            SimplexView_contains(fd, md, SetKey(S)).kind = "True"

\* C9: in every state reachable by insert and remove the reported dimension
\* is the maximal rank whose bucket is not empty, and -1 exactly when nothing
\* is stored; an insert of S makes it max(previous dimension, |S|-1); and
\* contains rejects no stored simplex.
C9_Dimension ==
    [][/\ DimensionOk(faces_dict, max_dim)
       /\ DimensionOk(faces_dict', max_dim')
       /\ (Mutation /\ lastOp'.op = "insert") =>
            SimplexContainer_dimension(max_dim')
                = Max(SimplexContainer_dimension(max_dim), Cardinality(lastOp'.key) - 1)]_vars

\* the last simplex of the top rank has just been removed and the dimension
\* has gone down to that of the simplices left
C9_Witness ==
    /\ lastOp.op = "remove"
    /\ result = None
    /\ max_dim < lastOp.rank
    /\ max_dim >= 0

\* each ElementSet is in at most one rank bucket
OneRank(hd) ==
    \A r1 \in DOMAIN hd, r2 \in DOMAIN hd :
        r1 # r2 => (DOMAIN hd[r1]) \cap (DOMAIN hd[r2]) = {}

\* C4: an insert of an ElementSet that is stored at another rank than the one
\* given fails with RankConflictError and leaves the container as it was; in
\* every reachable state each ElementSet is in at most one rank bucket.
C4_RankConflict ==
    [][/\ OneRank(hyperedge_dict)
       /\ OneRank(hyperedge_dict')
       /\ (/\ Mutation
           /\ lastOp'.op = "add_hyperedge"
           /\ \E r1 \in DOMAIN hyperedge_dict :
                /\ r1 # lastOp'.rank
                /\ lastOp'.key \in DOMAIN hyperedge_dict[r1])
          => /\ result'.kind = "RankConflictError"
             /\ hyperedge_dict' = hyperedge_dict]_vars

\* a set stored at rank 0 with one payload has just been refused at rank 1
\* with another
C4_Witness ==
    /\ lastOp.op = "add_hyperedge"
    /\ lastOp.rank = 1
    /\ prevOp.op = "add_hyperedge"
    /\ prevOp.rank = 0
    /\ prevOp.key = lastOp.key
    /\ prevOp.payload # lastOp.payload
    /\ result.kind = "RankConflictError"

\* the ElementSets stored at the ranks that satisfy test
StoredAtRanks(hd, test(_)) == UNION {DOMAIN hd[r] : r \in {q \in DOMAIN hd : test(q)}}

\* C6: skeleton(rank, mode) of the hyperedge view returns exactly the stored
\* ElementSets of rank >= rank for "upper", of rank <= rank for "lower" and
\* of that rank for "equal".
C6_HyperSkeleton ==
    query.op = "hyper_skeleton" =>
        LET geq(q) == q >= query.rank
            leq(q) == q <= query.rank
            eq(q) == q = query.rank
        IN  /\ query.mode = "upper" =>
                query.ret.elems = StoredAtRanks(hyperedge_dict, geq)
            /\ query.mode = "lower" =>
                query.ret.elems = StoredAtRanks(hyperedge_dict, leq)
            /\ query.mode = "equal" =>
                query.ret.elems = StoredAtRanks(hyperedge_dict, eq)

\* the boundary b as a caller's tuple
TupleKey(b) == [form |-> "tuple", atoms |-> b]

Found(fd, md) ==
    {T \in (SUBSET Nodes) \ {{}} : SimplexView_contains(fd, md, SetKey(T)).kind = "True"}

\* the non-empty subsets of the maximal cliques of g with at most n vertices
\* (all of them when maxdim is None)
CliqueFaces(g, maxdim, n) ==
    {T \in (SUBSET Nodes) \ {{}} :
        /\ \E C \in MaximalCliques(g) : T \subseteq C
        /\ maxdim = -1 \/ Cardinality(T) <= n}

\* C10 as claimed: the simplices of clique_complex(graph, max_dim) are exactly
\* the non-empty subsets of the maximal cliques with at most max_dim+1
\* vertices; every node is stored; the result is downward closed.
C10_CliqueFacesPlusOne ==
    pc = "done" =>
        /\ Found(faces_dict, max_dim) = CliqueFaces(G, cap, cap + 1)
        /\ \A v \in Nodes : {v} \in Found(faces_dict, max_dim)
        /\ Closed(faces_dict, max_dim)

\* C10 as amended: the simplices of clique_complex(graph, max_dim) are exactly
\* the non-empty subsets of the maximal cliques with at most max_dim vertices
\* (all of them when max_dim is None), so that a maximal clique of more than
\* max_dim vertices is not stored; every node, an isolated one included, is a
\* rank-0 simplex; the result is downward closed.  (max_dim is None or 1 or
\* more.)
C10_CliqueFaces ==
    pc = "done" =>
        /\ Found(faces_dict, max_dim) = CliqueFaces(G, cap, cap)
        /\ SimplexView_iter(faces_dict) = Found(faces_dict, max_dim)
        /\ \A C \in MaximalCliques(G) :
                (cap # -1 /\ Cardinality(C) > cap) => C \notin Found(faces_dict, max_dim)
        /\ \A v \in Nodes : Stored(faces_dict, {v})
        /\ Closed(faces_dict, max_dim)

\* the clique complex of a graph with a triangle and an isolated node has been
\* built with max_dim = 2
C10_Witness ==
    /\ pc = "done"
    /\ cap = 2
    /\ \E C \in MaximalCliques(G) : Cardinality(C) = 3
    /\ \E v \in Nodes : {v} \in MaximalCliques(G)
    /\ max_dim = 1

Names(k, a) == k.atoms = <<a>>

\* C8: contains raises no error and, for an atom a, returns the same boolean
\* for the bare atom, for the collection of a alone in any sequence type and
\* for the typed entity of elements {a}; for a collection it does not depend
\* on the order of the atoms.  In the simplex view, the node view and the
\* hyperedge view.
C8_ContainsForms ==
    /\ query.op \in {"simplex_contains", "node_contains"}
            => query.ret.kind \in {"True", "False"}
    /\ query.op = "simplex_contains" =>
            \A k \in Keys :
                (/\ NoRepeat(k.atoms)
                 /\ NoRepeat(query.key.atoms)
                 /\ FrozenSet(k) = FrozenSet(query.key))
                    => SimplexView_contains(faces_dict, max_dim, k) = query.ret
    /\ query.op = "node_contains" =>
            \A k \in Keys, a \in Atoms :
                (Names(k, a) /\ Names(query.key, a))
                    => NodeView_contains(NodeView_init(faces_dict), k) = query.ret
    /\ \A k1 \in Keys, k2 \in Keys :
            (/\ NoRepeat(k1.atoms)
             /\ NoRepeat(k2.atoms)
             /\ FrozenSet(k1) = FrozenSet(k2))
                => /\ HyperEdgeView_contains(hyperedge_dict, k1).kind \in {"True", "False"}
                   /\ HyperEdgeView_contains(hyperedge_dict, k1)
                        = HyperEdgeView_contains(hyperedge_dict, k2)

\* the graph of the clique complex's test: the triangles 0-1-2 and 0-2-3
TestGraph == {{0, 1}, {1, 2}, {2, 0}, {2, 3}, {3, 0}}

Min(a, b) == IF a <= b THEN a ELSE b

\* the number of vertices of the largest clique of g
LargestClique(g) ==
    CHOOSE n \in 1..NumNodes :
        /\ \E C \in MaximalCliques(g) : Cardinality(C) = n
        /\ \A C \in MaximalCliques(g) : Cardinality(C) <= n

\* C11: the clique complex built with max_dim = k stores no simplex of more
\* than k vertices and contains finds none, so its dimension is min(k, size of
\* the largest clique) - 1 (size of the largest clique - 1 without a cap); on
\* the test's graph the uncapped result has dimension 2 and (0,1,2) and
\* (0,2,3) are in it, while max_dim = 2 gives dimension 1 and neither is in
\* it; the deprecated entry point warns and builds the complex the other
\* builds, the one the graph and max_dim determine.
C11_CliqueCap ==
    pc = "done" =>
        /\ cap # -1 =>
            /\ \A S \in SimplexView_iter(faces_dict) : Cardinality(S) <= cap
            /\ \A T \in SUBSET Nodes :
                    Cardinality(T) > cap =>
                        SimplexView_contains(faces_dict, max_dim, SetKey(T)).kind = "False"
            /\ SimplexContainer_dimension(max_dim) = Min(cap, LargestClique(G)) - 1
        /\ cap = -1 =>
            SimplexContainer_dimension(max_dim) = LargestClique(G) - 1
        /\ (G = TestGraph /\ cap = -1) =>
            /\ SimplexContainer_dimension(max_dim) = 2
            /\ SimplexView_contains(faces_dict, max_dim, TupleKey(<<0, 1, 2>>)).kind = "True"
            /\ SimplexView_contains(faces_dict, max_dim, TupleKey(<<0, 2, 3>>)).kind = "True"
        /\ (G = TestGraph /\ cap = 2) =>
            /\ SimplexContainer_dimension(max_dim) = 1
            /\ SimplexView_contains(faces_dict, max_dim, TupleKey(<<0, 1, 2>>)).kind = "False"
            /\ SimplexView_contains(faces_dict, max_dim, TupleKey(<<0, 2, 3>>)).kind = "False"
        /\ lastOp.op \in EntryPoints
        /\ (lastOp.op = "graph_2_clique_complex") <=> (result.kind = "DeprecationWarning")
        /\ Found(faces_dict, max_dim) = CliqueFaces(G, cap, cap)
        /\ SimplexView_iter(faces_dict) = CliqueFaces(G, cap, cap)

\* the deprecated entry point has built the clique complex of the test's
\* graph with max_dim = 2
C11_Witness ==
    /\ pc = "done"
    /\ G = TestGraph
    /\ cap = 2
    /\ lastOp.op = "graph_2_clique_complex"
    /\ max_dim = 1
    /\ SimplexView_len(faces_dict) = 9

\* the graph of the neighbor complex's test: the 4-cycle 0-1-2-3
FourCycle == {{0, 1}, {1, 2}, {2, 3}, {3, 0}}

\* the non-empty subsets of the closed neighbourhoods of g
NeighborFaces(g) == UNION {Faces(ClosedNeighborhood(g, v)) : v \in Nodes}

\* the number of nodes of the largest closed neighbourhood of g
LargestNeighborhood(g) ==
    CHOOSE n \in 1..NumNodes :
        /\ \E v \in Nodes : Cardinality(ClosedNeighborhood(g, v)) = n
        /\ \A v \in Nodes : Cardinality(ClosedNeighborhood(g, v)) <= n

\* C12: the neighbor complex of a graph stores, and contains finds, the
\* closed neighbourhood N[v] of every node v and every non-empty subset of it,
\* and nothing else; its dimension is the maximum over v of |N[v]| - 1; on
\* the 4-cycle it has dimension 2 and both (0,1) and the non-edge (0,2) are
\* in it.
C12_NeighborFaces ==
    pc = "done" =>
        /\ \A v \in Nodes : \A T \in Faces(ClosedNeighborhood(G, v)) :
                /\ Stored(faces_dict, T)
                /\ SimplexView_contains(faces_dict, max_dim, SetKey(T)).kind = "True"
        /\ SimplexView_iter(faces_dict) = NeighborFaces(G)
        /\ Found(faces_dict, max_dim) = NeighborFaces(G)
        /\ SimplexContainer_dimension(max_dim) = LargestNeighborhood(G) - 1
        /\ G = FourCycle =>
            /\ SimplexContainer_dimension(max_dim) = 2
            /\ SimplexView_contains(faces_dict, max_dim, TupleKey(<<0, 1>>)).kind = "True"
            /\ SimplexView_contains(faces_dict, max_dim, TupleKey(<<0, 2>>)).kind = "True"

\* the neighbor complex of the 4-cycle has been built: the pair {0, 2} is no
\* edge of the graph and is a simplex of the complex
C12_Witness ==
    /\ pc = "done"
    /\ G = FourCycle
    /\ {0, 2} \notin G
    /\ Stored(faces_dict, {0, 2})
    /\ max_dim = 2

====
